---- MODULE Spec2Model ----
(***************************************************************************)
(* A model of pyattck's Attck facade (src/pyattck/attck.py): the           *)
(* class-level documents, the per-instance collection caches, the          *)
(* construction / update() load path and the six collection properties.    *)
(* The DatasetProvider (AttckDatasets) is an external collaborator: each   *)
(* of its calls either raises or returns one of a small set of documents.  *)
(***************************************************************************)
EXTENDS Integers, Sequences, FiniteSets, TLC

(* ------------------------------ bounds --------------------------------- *)

\* number of DatasetProvider calls in one behaviour
MaxFetch == 3

\* number of collection property reads in one behaviour
MaxAccess == 2

\* the Attck objects a behaviour may construct
Instances == {1, 2}

(* --------------------------- the documents ----------------------------- *)

\* a node of the 'objects' list without a 'type' key
NoType == "<no type>"

\* the six collection properties of Attck
Kinds == {"actors", "tactics", "mitigations", "tools", "malwares", "techniques"}

\* the declared type each property compares group['type'] with
KindType(k) ==
    CASE k = "actors"      -> "intrusion-set"
      [] k = "tactics"     -> "x-mitre-tactic"
      [] k = "mitigations" -> "course-of-action"
      [] k = "tools"       -> "tool"
      [] k = "malwares"    -> "malware"
      [] k = "techniques"  -> "attack-pattern"

\* the entity class each property instantiates
KindClass(k) ==
    CASE k = "actors"      -> "AttckActor"
      [] k = "tactics"     -> "AttckTactic"
      [] k = "mitigations" -> "AttckMitigation"
      [] k = "tools"       -> "AttckTools"
      [] k = "malwares"    -> "AttckMalware"
      [] k = "techniques"  -> "AttckTechnique"

\* the class attribute before any load: None
NoneContent == [shape |-> "none", objects |-> <<>>]

\* the parsed document {} (falsy in Python)
EmptyContent == [shape |-> "empty", objects |-> <<>>]

\* a non-empty parsed document without an 'objects' key
NoObjectsContent == [shape |-> "noobjects", objects |-> <<>>]

\* a parsed document {'objects': [...]}; each node is given by its 'type'
Objs(ts) == [shape |-> "objects", objects |-> ts]

\* the graph documents AttckDatasets.mitre may return
DocContents ==
    { EmptyContent,
      NoObjectsContent,
      Objs(<<"attack-pattern", "intrusion-set", "x-mitre-tactic", "attack-pattern",
             "relationship">>),
      Objs(<<"tool", "course-of-action", NoType, "malware", "tool">>) }

\* the enrichment documents AttckDatasets.generated_attck_data may return
GenContents == {"empty", "data"}

\* the provider call raises (DataUnavailableError or any other exception)
Raise == "raise"

RaiseContent == [shape |-> Raise, objects |-> <<>>]

\* the provider is not called
Skip == "skip"

SkipContent == [shape |-> Skip, objects |-> <<>>]

NoneDoc == [gen |-> 0, content |-> NoneContent, sub |-> FALSE]

NoneGen == [gen |-> 0, content |-> "none"]

\* Python truthiness of the class-level graph document: `not doc`
FalsyAlways(d) == TRUE

Falsy(d) == d.content.shape \in {"none", "empty"}

\* Python truthiness of the class-level enrichment document
FalsyGen(g) == g.content \in {"none", "empty"}

\* doc['objects'] evaluates without raising
HasObjects(d) == d.content.shape = "objects"

(* ------------------------------ state ---------------------------------- *)

VARIABLES
    doc,            \* Attck.__ENTERPRISE_ATTCK_JSON
    gendata,        \* Attck.__ENTERPRISE_GENERATED_DATA_JSON
    alive,          \* the instances whose __init__ returned
    subtechniques,  \* self.subtechniques
    cache,          \* self.__actors, self.__tactics, ... per instance
    nCalls,         \* history: number of DatasetProvider calls so far
    okCalls,        \* history: number of calls of each provider function that returned
    last,           \* history: the most recent operation and its outcome
    lastRet,        \* history: what each property last returned since the last update()
    cacheGen,       \* history: the document generation current when a cache was initialised
    nAccess,        \* history: number of property reads so far
    updated,        \* history: update() has been called
    hist,           \* history of each property of each instance: a call raised,
                    \* and the number of elements callers removed from its list
    pc,             \* position of an operation that runs step by step
    opForce,        \* the force argument of the __load_data call in progress
    scan            \* the property loop in progress: kind, list iterated, position

vars == <<doc, gendata, alive, subtechniques, cache, nCalls, okCalls, last, lastRet,
          cacheGen, nAccess, updated, hist, pc, opForce, scan>>

\* an instance attribute that is still the class default None
Unset == [set |-> FALSE, items |-> <<>>]

NoLast == [op |-> "none", inst |-> 0, kind |-> "", force |-> FALSE, raised |-> FALSE,
           newCalls |-> <<>>, docBefore |-> NoneDoc, genBefore |-> NoneGen,
           ret |-> <<>>, prevRet |-> Unset, built |-> FALSE, warned |-> 0,
           prevFailed |-> FALSE, retried |-> "none"]

NoHist == [failed |-> FALSE, removed |-> 0]

NoScan == [kind |-> "", gen |-> 0, objects |-> <<>>, pos |-> 0]

Init ==
    /\ doc = NoneDoc
    /\ gendata = NoneGen
    /\ alive = [i \in Instances |-> FALSE]
    /\ subtechniques = [i \in Instances |-> FALSE]
    /\ cache = [i \in Instances |-> [k \in Kinds |-> Unset]]
    /\ nCalls = 0
    /\ okCalls = [mitre |-> 0, generated |-> 0]
    /\ last = NoLast
    /\ lastRet = [i \in Instances |-> [k \in Kinds |-> Unset]]
    /\ cacheGen = [i \in Instances |-> [k \in Kinds |-> 0]]
    /\ nAccess = 0
    /\ updated = FALSE
    /\ hist = [i \in Instances |-> [k \in Kinds |-> NoHist]]
    /\ pc = [i \in Instances |-> "idle"]
    /\ opForce = [i \in Instances |-> FALSE]
    /\ scan = [i \in Instances |-> NoScan]

(* ------------------------------ loading -------------------------------- *)

\* the outcomes of the provider call a load step makes
GraphOutcomes(d) == IF Falsy(d) THEN DocContents \cup {RaiseContent} ELSE {SkipContent}

EnrichOutcomes(g) == IF FalsyGen(g) THEN GenContents \cup {Raise} ELSE {Skip}

\* the first statement of __load_data: fetch the graph document if the
\* class attribute is falsy; n provider calls were made before, g is what
\* the provider does
GraphStep(d, n, sub, force, g) ==
    IF ~Falsy(d) THEN [doc |-> d, new |-> <<>>, raised |-> FALSE]
    ELSE LET rec == [fn |-> "mitre", force |-> force, sub |-> sub,
                     ok |-> (g # RaiseContent)]
         IN IF g = RaiseContent
            THEN [doc |-> d, new |-> <<rec>>, raised |-> TRUE]
            ELSE [doc |-> [gen |-> n + 1, content |-> g, sub |-> sub],
                  new |-> <<rec>>, raised |-> FALSE]

\* the second statement of __load_data: fetch the enrichment document
EnrichStep(gd, n, force, e) ==
    IF ~FalsyGen(gd) THEN [gendata |-> gd, new |-> <<>>, raised |-> FALSE]
    ELSE LET rec == [fn |-> "generated", force |-> force, sub |-> FALSE,
                     ok |-> (e # Raise)]
         IN IF e = Raise
            THEN [gendata |-> gd, new |-> <<rec>>, raised |-> TRUE]
            ELSE [gendata |-> [gen |-> n + 1, content |-> e],
                  new |-> <<rec>>, raised |-> FALSE]

\* __load_data as a whole; the enrichment step runs only if the graph step returned
LoadData(d, gd, n, sub, force, g, e) ==
    LET s1 == GraphStep(d, n, sub, force, g)
    IN IF s1.raised
       THEN [doc |-> s1.doc, gendata |-> gd, new |-> s1.new, raised |-> TRUE]
       ELSE LET s2 == EnrichStep(gd, n + Len(s1.new), force, e)
            IN [doc |-> s1.doc, gendata |-> s2.gendata, new |-> s1.new \o s2.new,
                raised |-> s2.raised]

\* the provider calls of new counted into the per-function totals
Counted(ok, new) ==
    [f \in {"mitre", "generated"} |->
        ok[f] + Cardinality({x \in 1..Len(new) : new[x].fn = f /\ new[x].ok})]

\* the force argument __init__ passes to __load_data
InitLoadForceAs(force) == force

InitLoadForce(force) == FALSE

\* the force argument update() passes to __load_data
UpdateLoadForce == TRUE

Idle == \A i \in Instances : pc[i] = "idle"

(* --------------------------- the operations ---------------------------- *)

\* history: the provider function whose exception ended the construction
\* that was the most recent operation, "none" if there is no such construction
FailedFetch ==
    IF last.op = "construct" /\ last.raised
    THEN last.newCalls[Len(last.newCalls)].fn
    ELSE "none"

\* Attck(subtechniques=sub, force=force); an exception in __init__ leaves no
\* object; the objects are numbered in the order their construction succeeds
Construct(i, sub, force) ==
    /\ Idle
    /\ ~alive[i]
    /\ \A j \in Instances : j < i => alive[j]
    /\ \E g \in GraphOutcomes(doc), e \in EnrichOutcomes(gendata) :
          LET r == LoadData(doc, gendata, nCalls, sub, InitLoadForce(force), g, e)
          IN /\ nCalls + Len(r.new) <= MaxFetch
             /\ doc' = r.doc
             /\ gendata' = r.gendata
             /\ nCalls' = nCalls + Len(r.new)
             /\ okCalls' = Counted(okCalls, r.new)
             /\ alive' = [alive EXCEPT ![i] = ~r.raised]
             /\ subtechniques' = [subtechniques EXCEPT ![i] = IF r.raised THEN @ ELSE sub]
             /\ last' = [NoLast EXCEPT !.op = "construct", !.inst = i, !.force = force,
                                       !.raised = r.raised, !.newCalls = r.new,
                                       !.docBefore = doc, !.genBefore = gendata,
                                       !.retried = FailedFetch]
    /\ UNCHANGED <<cache, lastRet, cacheGen, nAccess, updated, hist, pc, opForce, scan>>

\* attck.update()
Update(i) ==
    /\ Idle
    /\ alive[i]
    /\ \E g \in GraphOutcomes(doc), e \in EnrichOutcomes(gendata) :
          LET r == LoadData(doc, gendata, nCalls, subtechniques[i], UpdateLoadForce, g, e)
          IN /\ nCalls + Len(r.new) <= MaxFetch
             /\ doc' = r.doc
             /\ gendata' = r.gendata
             /\ nCalls' = nCalls + Len(r.new)
             /\ okCalls' = Counted(okCalls, r.new)
             /\ last' = [NoLast EXCEPT !.op = "update", !.inst = i, !.force = TRUE,
                                       !.raised = r.raised, !.newCalls = r.new,
                                       !.docBefore = doc, !.genBefore = gendata]
    /\ updated' = TRUE
    /\ lastRet' = [j \in Instances |-> [k \in Kinds |-> Unset]]
    /\ UNCHANGED <<alive, subtechniques, cache, cacheGen, nAccess, hist, pc, opForce, scan>>

\* Attck<Kind>(attck_obj=self.__ENTERPRISE_ATTCK_JSON, **node)
Entity(k, gen, idx, type, objgen) ==
    [cls |-> KindClass(k), node |-> [gen |-> gen, idx |-> idx, type |-> type],
     attck_obj |-> objgen]

\* one iteration of the for loop of a collection property, on the node at
\* position pos of the list objs of document generation gen; objgen is the
\* generation of self.__ENTERPRISE_ATTCK_JSON when the iteration reads it
LoopBody(k, gen, objs, pos, acc, objgen) ==
    IF objs[pos] = NoType THEN [items |-> acc, raised |-> TRUE]
    ELSE IF objs[pos] = KindType(k)
         THEN [items |-> Append(acc, Entity(k, gen, pos, objs[pos], objgen)),
               raised |-> FALSE]
         ELSE [items |-> acc, raised |-> FALSE]

\* the for loop run to its end with no other operation in between
RECURSIVE Loop(_, _, _, _, _)
Loop(k, gen, objs, pos, acc) ==
    IF pos > Len(objs) THEN [items |-> acc, raised |-> FALSE]
    ELSE LET b == LoopBody(k, gen, objs, pos, acc, gen)
         IN IF b.raised THEN b ELSE Loop(k, gen, objs, pos + 1, b.items)

\* the body of a collection property: c is the instance attribute, d the document
PropertyAs(k, c, d) ==
    IF ~HasObjects(d) THEN [cache |-> [set |-> TRUE, items |-> c.items], raised |-> TRUE]
    ELSE LET r == Loop(k, d.gen, d.content.objects, 1, c.items)
         IN [cache |-> [set |-> TRUE, items |-> r.items], raised |-> r.raised]

Property(k, c, d) ==
    IF c.set THEN [cache |-> c, raised |-> FALSE]
    ELSE IF ~HasObjects(d) THEN [cache |-> [set |-> TRUE, items |-> <<>>], raised |-> TRUE]
    ELSE LET r == Loop(k, d.gen, d.content.objects, 1, <<>>)
         IN [cache |-> [set |-> TRUE, items |-> r.items], raised |-> r.raised]

\* the assignment self.__actors = ... and the appends to it: the list c
\* becomes the attribute of property k on instance i alone
StoreAttrAs(i, k, c) == [j \in Instances |-> [cache[j] EXCEPT ![k] = c]]

StoreAttr(i, k, c) == [cache EXCEPT ![i][k] = c]

\* the warnings.warn(..., DeprecationWarning) calls of a collection property
\* whose instance attribute is c: one, made before the attribute is looked at
WarnsAs(c) == IF c.set THEN 0 ELSE 1

Warns(c) == 1

\* the warnings.warn calls of the enterprise property
EnterpriseWarns == 0

\* reading attck.actors, attck.tactics, ... (k names the property)
Access(i, k) ==
    /\ Idle
    /\ alive[i]
    /\ nAccess < MaxAccess
    /\ LET r == Property(k, cache[i][k], doc)
       IN /\ cache' = StoreAttr(i, k, r.cache)
          /\ last' = [NoLast EXCEPT !.op = "access", !.inst = i, !.kind = k,
                                    !.raised = r.raised,
                                    !.ret = IF r.raised THEN <<>> ELSE r.cache.items,
                                    !.prevRet = lastRet[i][k],
                                    !.built = ~cache[i][k].set,
                                    !.warned = Warns(cache[i][k]),
                                    !.prevFailed = hist[i][k].failed]
          /\ hist' = [hist EXCEPT ![i][k].failed = @ \/ r.raised]
          /\ lastRet' = IF r.raised THEN lastRet
                        ELSE [lastRet EXCEPT ![i][k] = [set |-> TRUE, items |-> r.cache.items]]
          /\ cacheGen' = IF cache[i][k].set THEN cacheGen
                         ELSE [cacheGen EXCEPT ![i][k] = doc.gen]
    /\ nAccess' = nAccess + 1
    /\ UNCHANGED <<doc, gendata, alive, subtechniques, nCalls, okCalls, updated, pc,
                   opForce, scan>>

\* reading attck.enterprise: Enterprise(self.__ENTERPRISE_ATTCK_JSON)
Enterprise(i) ==
    /\ pc[i] = "idle"
    /\ alive[i]
    /\ last' = [NoLast EXCEPT !.op = "enterprise", !.inst = i,
                              !.warned = EnterpriseWarns]
    /\ UNCHANGED <<doc, gendata, alive, subtechniques, cache, nCalls, okCalls, lastRet,
                   cacheGen, nAccess, updated, hist, pc, opForce, scan>>

\* a caller removes the first element of the list a property has just
\* returned to it; the list is the instance attribute itself (`return
\* self.__actors`), and it is the list an earlier call returned as well
Mutate(i, k) ==
    /\ Idle
    /\ last.op = "access" /\ ~last.raised /\ last.inst = i /\ last.kind = k
    /\ Len(cache[i][k].items) > 0
    /\ cache' = [cache EXCEPT ![i][k].items = Tail(@)]
    /\ lastRet' = [lastRet EXCEPT ![i][k].items = Tail(@)]
    /\ hist' = [hist EXCEPT ![i][k].removed = @ + 1]
    /\ last' = [NoLast EXCEPT !.op = "mutate", !.inst = i, !.kind = k]
    /\ UNCHANGED <<doc, gendata, alive, subtechniques, nCalls, okCalls, cacheGen, nAccess,
                   updated, pc, opForce, scan>>

Next ==
    \/ \E i \in Instances, sub \in BOOLEAN, force \in BOOLEAN : Construct(i, sub, force)
    \/ \E i \in Instances : Update(i)
    \/ \E i \in Instances, k \in Kinds : Access(i, k)
    \/ \E i \in Instances : Enterprise(i)

Spec == Init /\ [][Next]_vars

\* the operations together with callers that change the lists they were given
NextCaller ==
    \/ Next
    \/ \E i \in Instances, k \in Kinds : Mutate(i, k)

SpecCaller == Init /\ [][NextCaller]_vars

(* ------------------- the operations, step by step ---------------------- *)
\* The same operations with the statements of __load_data and the iterations
\* of a property's loop as separate steps, so that the operations of
\* different callers interleave.  The history variables last, lastRet,
\* okCalls and updated describe whole operations and are not maintained by
\* the steps.  The enterprise property hands the one document reference it
\* reads to Enterprise and has no steps to interleave.

\* __load_data takes no lock: each of its statements tests the class
\* attribute, calls the provider and assigns.  A statement is one step here,
\* which is exact while loads do not overlap; the program is single-threaded
\* with no concurrent writers (spec, section 5), so one load runs at a time
\* and only the readers interleave with it.
NoLoadInProgress == \A j \in Instances : pc[j] \notin {"graph", "enrich"}

\* Attck(...) up to the call of __load_data
BeginConstruct(i, sub, force) ==
    /\ pc[i] = "idle"
    /\ NoLoadInProgress
    /\ ~alive[i]
    /\ \A j \in Instances : j < i => alive[j]
    /\ subtechniques' = [subtechniques EXCEPT ![i] = sub]
    /\ opForce' = [opForce EXCEPT ![i] = InitLoadForce(force)]
    /\ pc' = [pc EXCEPT ![i] = "graph"]
    /\ UNCHANGED <<doc, gendata, alive, cache, nCalls, okCalls, last, lastRet, cacheGen,
                   nAccess, updated, hist, scan>>

\* update() up to the call of __load_data
BeginUpdate(i) ==
    /\ pc[i] = "idle"
    /\ NoLoadInProgress
    /\ alive[i]
    /\ opForce' = [opForce EXCEPT ![i] = UpdateLoadForce]
    /\ pc' = [pc EXCEPT ![i] = "graph"]
    /\ UNCHANGED <<doc, gendata, alive, subtechniques, cache, nCalls, okCalls, last,
                   lastRet, cacheGen, nAccess, updated, hist, scan>>

\* the first statement of __load_data
StepGraph(i) ==
    /\ pc[i] = "graph"
    /\ nCalls + (IF Falsy(doc) THEN 1 ELSE 0) <= MaxFetch
    /\ \E g \in GraphOutcomes(doc) :
          LET r == GraphStep(doc, nCalls, subtechniques[i], opForce[i], g)
          IN /\ doc' = r.doc
             /\ nCalls' = nCalls + Len(r.new)
             /\ pc' = [pc EXCEPT ![i] = IF r.raised THEN "idle" ELSE "enrich"]
    /\ UNCHANGED <<gendata, alive, subtechniques, cache, okCalls, last, lastRet, cacheGen,
                   nAccess, updated, hist, opForce, scan>>

\* the second statement of __load_data and the return to the caller
StepEnrich(i) ==
    /\ pc[i] = "enrich"
    /\ nCalls + (IF FalsyGen(gendata) THEN 1 ELSE 0) <= MaxFetch
    /\ \E e \in EnrichOutcomes(gendata) :
          LET r == EnrichStep(gendata, nCalls, opForce[i], e)
          IN /\ gendata' = r.gendata
             /\ nCalls' = nCalls + Len(r.new)
             /\ alive' = [alive EXCEPT ![i] = IF r.raised THEN @ ELSE TRUE]
    /\ pc' = [pc EXCEPT ![i] = "idle"]
    /\ UNCHANGED <<doc, subtechniques, cache, okCalls, last, lastRet, cacheGen, nAccess,
                   updated, hist, opForce, scan>>

\* a collection property up to the first iteration of its loop
BeginScan(i, k) ==
    /\ pc[i] = "idle"
    /\ alive[i]
    /\ nAccess < MaxAccess
    /\ nAccess' = nAccess + 1
    /\ IF cache[i][k].set
       THEN UNCHANGED <<cache, cacheGen, pc, scan>>
       ELSE /\ cache' = [cache EXCEPT ![i][k] = [set |-> TRUE, items |-> <<>>]]
            /\ cacheGen' = [cacheGen EXCEPT ![i][k] = doc.gen]
            /\ IF HasObjects(doc)
               THEN /\ scan' = [scan EXCEPT ![i] = [kind |-> k, gen |-> doc.gen,
                                                    objects |-> doc.content.objects,
                                                    pos |-> 1]]
                    /\ pc' = [pc EXCEPT ![i] = "scan"]
               ELSE UNCHANGED <<pc, scan>>
    /\ UNCHANGED <<doc, gendata, alive, subtechniques, nCalls, okCalls, last, lastRet,
                   updated, hist, opForce>>

\* one iteration of the loop, or the return after the last one
StepScan(i) ==
    /\ pc[i] = "scan"
    /\ LET sc == scan[i]
       IN IF sc.pos > Len(sc.objects)
          THEN /\ pc' = [pc EXCEPT ![i] = "idle"]
               /\ scan' = [scan EXCEPT ![i] = NoScan]
               /\ UNCHANGED cache
          ELSE LET b == LoopBody(sc.kind, sc.gen, sc.objects, sc.pos,
                                 cache[i][sc.kind].items, doc.gen)
               IN /\ cache' = [cache EXCEPT ![i][sc.kind].items = b.items]
                  /\ pc' = [pc EXCEPT ![i] = IF b.raised THEN "idle" ELSE "scan"]
                  /\ scan' = [scan EXCEPT ![i] = IF b.raised THEN NoScan
                                                 ELSE [sc EXCEPT !.pos = sc.pos + 1]]
    /\ UNCHANGED <<doc, gendata, alive, subtechniques, nCalls, okCalls, last, lastRet,
                   cacheGen, nAccess, updated, hist, opForce>>

NextInterleaved ==
    \/ \E i \in Instances, sub \in BOOLEAN, force \in BOOLEAN : BeginConstruct(i, sub, force)
    \/ \E i \in Instances : BeginUpdate(i)
    \/ \E i \in Instances : StepGraph(i)
    \/ \E i \in Instances : StepEnrich(i)
    \/ \E i \in Instances, k \in Kinds : BeginScan(i, k)
    \/ \E i \in Instances : StepScan(i)

SpecInterleaved == Init /\ [][NextInterleaved]_vars

(* ------------------------------ claims --------------------------------- *)

\* the provider calls the most recent operation made
LastCalled(f) == \E x \in 1..Len(last.newCalls) : last.newCalls[x].fn = f

LastCalledForced(f) ==
    \E x \in 1..Len(last.newCalls) : last.newCalls[x].fn = f /\ last.newCalls[x].force

\* the graph fetch of the most recent operation raised
LastGraphRaised ==
    \E x \in 1..Len(last.newCalls) :
        last.newCalls[x].fn = "mitre" /\ ~last.newCalls[x].ok

LastLoad == last.op \in {"construct", "update"}

LastReturned == last.op = "access" /\ ~last.raised

\* C1: an update() that returns has called the provider for the graph
\* document and for the enrichment document, both with force = true, and
\* both process-wide documents are the ones those calls returned.
C1_UpdateReloadsBoth ==
    (last.op = "update" /\ ~last.raised) =>
        /\ LastCalledForced("mitre")
        /\ LastCalledForced("generated")
        /\ doc.gen > last.docBefore.gen
        /\ gendata.gen > last.genBefore.gen

\* C2: the list a collection property returns was computed from the graph
\* document of the most recent successful load, never from an earlier one.
C2_ReturnReflectsLatestLoad ==
    LastReturned => cacheGen[last.inst][last.kind] = doc.gen

\* C3: a collection property that returned a list returns, on its next call
\* on the same instance with no update() in between, a list with the same
\* nodes in the same order with the same attributes.
C3_Idempotent ==
    (LastReturned /\ last.prevRet.set) => last.ret = last.prevRet.items

\* C3 witness: a second read returned a list of two entities
C3_Witness ==
    LastReturned /\ last.prevRet.set /\ Len(last.ret) = 2

\* the nodes of document d whose declared type is that of kind k, in
\* document order, each wrapped in the entity class of k
RECURSIVE NodesOfType(_, _, _)
NodesOfType(k, d, n) ==
    IF n = 0 THEN <<>>
    ELSE LET rest == NodesOfType(k, d, n - 1)
         IN IF d.content.objects[n] = KindType(k)
            THEN Append(rest, Entity(k, d.gen, n, KindType(k), d.gen))
            ELSE rest

\* C4: a collection property returns exactly the nodes of the loaded graph
\* document that have the declared type of its kind, once per occurrence and
\* in document order, and no node is in the lists of two kinds.
C4_ExactFilterByType ==
    /\ LastReturned =>
          last.ret = NodesOfType(last.kind, doc, Len(doc.content.objects))
    /\ \A i \in Instances : \A k1, k2 \in Kinds :
          k1 # k2 =>
             \A x \in 1..Len(cache[i][k1].items), y \in 1..Len(cache[i][k2].items) :
                cache[i][k1].items[x].node # cache[i][k2].items[y].node

\* C5 as stated: a construction with force = true that returns has called
\* the provider for both documents with force = true.
C5_ForceConstructReloads ==
    (last.op = "construct" /\ last.force /\ ~last.raised) =>
        LastCalledForced("mitre") /\ LastCalledForced("generated")

\* C5 amended: a construction with force = true loads as any construction
\* does: every provider call it makes has force = false, the graph document
\* is fetched exactly when the process-wide one is unset or empty, and the
\* enrichment document exactly when the graph step returned and the
\* process-wide enrichment document is unset or empty.
C5_ForceConstructLoadsLazily ==
    (last.op = "construct" /\ last.force) =>
        /\ ~LastCalledForced("mitre")
        /\ ~LastCalledForced("generated")
        /\ LastCalled("mitre") <=> Falsy(last.docBefore)
        /\ LastCalled("generated") <=> (FalsyGen(last.genBefore) /\ ~LastGraphRaised)

\* C5 witness: a second construction, with force = true, returned without
\* calling the provider because an earlier construction had loaded both documents
C5_Witness ==
    /\ last.op = "construct" /\ last.force /\ ~last.raised
    /\ last.inst = 2
    /\ last.newCalls = <<>>
    /\ ~Falsy(doc) /\ ~FalsyGen(gendata)

\* C6: the graph document an instance reads was fetched with that instance's
\* own subtechniques option.
C6_DocumentMatchesOption ==
    \A i \in Instances : (alive[i] /\ doc.gen > 0) => doc.sub = subtechniques[i]

\* C7: no instance exists over a graph document without 'objects': the load
\* of such a document fails.
C7_NoInstanceWithoutObjects ==
    \A i \in Instances : alive[i] => HasObjects(doc)

\* C9: while update() has not been called, each provider function has
\* returned at most once, whatever document it returned.
C9_LoadedOnce ==
    ~updated => (okCalls.mitre <= 1 /\ okCalls.generated <= 1)

\* C10: a construction or update() that raised left the process-wide pair of
\* documents as it was before the call.
C10_FailedLoadChangesNothing ==
    (LastLoad /\ last.raised) => (doc = last.docBefore /\ gendata = last.genBefore)

C11_FreshOnEveryAccess ==
    LastReturned =>
        /\ last.built
        /\ hist[last.inst][last.kind].removed = 0

\* C12: a collection property that returns after an earlier call of it on
\* the same instance raised returns every node of its kind in the loaded
\* document, not the list the failed call left behind.
C12_CompleteAfterFailure ==
    (LastReturned /\ last.prevFailed) =>
        /\ HasObjects(doc)
        /\ last.ret = NodesOfType(last.kind, doc, Len(doc.content.objects))

\* C13: a step that reads a collection property or the enterprise property
\* calls no provider function, leaves both process-wide documents as they
\* are, and leaves every cached list other than the one of the property
\* read, on the instance read, as it is.
C13_AccessReadOnly ==
    [][(nAccess' # nAccess \/ (last'.op = "enterprise" /\ last' # last)) =>
          /\ nCalls' = nCalls
          /\ doc' = doc
          /\ gendata' = gendata
          /\ \A j \in Instances, k \in Kinds :
                (j # last'.inst \/ k # last'.kind) => cache'[j][k] = cache[j][k]]_vars

\* C13 witness: a property built and returned a non-empty list while the
\* other instance holds a cached list of its own
C13_Witness ==
    /\ LastReturned /\ last.built /\ Len(last.ret) > 0
    /\ \E j \in Instances, k \in Kinds : j # last.inst /\ cache[j][k].set

\* C14: the construction that follows a construction ended by a raising
\* fetch calls that provider function again, and a construction all of whose
\* fetches returned succeeds with both process-wide documents set.
C14_RetryAfterFailedLoad ==
    last.op = "construct" =>
        /\ last.retried # "none" => LastCalled(last.retried)
        /\ (\A x \in 1..Len(last.newCalls) : last.newCalls[x].ok) =>
              (~last.raised /\ alive[last.inst] /\ doc.gen > 0 /\ gendata.gen > 0)

\* C15: every read of a collection property, the first one and every one
\* served from the cached list, has issued one DeprecationWarning, also when
\* it raised afterwards; a read of the enterprise property has issued none.
C15_WarnsOnEveryAccess ==
    /\ last.op = "access" => last.warned = 1
    /\ last.op = "enterprise" => last.warned = 0

\* C15 witness: a read served from the cached list has issued its warning
C15_Witness ==
    LastReturned /\ ~last.built /\ last.warned = 1

====
